---- MODULE Spec2Model ----
(***************************************************************************)
(* A model of the wordpress-rs client core: the root-route model           *)
(* (src/src/root.rs), link-header discovery (src/src/client.rs), the       *)
(* query executor (src/src/request.rs, src/src/error.rs) and the lazily    *)
(* initialised root-route cache of the WordPress client                    *)
(* (src/src/wordpress.rs).                                                 *)
(*                                                                         *)
(* Text (URLs, header values, routes) is a sequence of one-character       *)
(* strings, so that parsing, pattern matching and percent-decoding are     *)
(* computed the way the code computes them.                                *)
(***************************************************************************)
EXTENDS Integers, Sequences, FiniteSets, TLC

VARIABLES
    url,            \* root.rs tests: the text handed to Url::parse
    root,           \* root.rs tests: the RootRoute built from it
    routes,         \* root.rs tests: the route fragments handed to join
    joined,         \* root.rs tests: the URLs join returned
    response,       \* request.rs: the response the client answered with
    typename,       \* request.rs: the result type T the caller asked for
    result,         \* request.rs: what query() returned
    routed,         \* endpoint.rs: what query() of an endpoint returned
    probe,          \* client.rs: the URL probed and what send_request answers
    discovered,     \* client.rs: the derived operation called and its return
    root_route,     \* wordpress.rs: the OnceCell<RootRoute> of the client
    pc,             \* where each caller is in its query
    call,           \* the query each caller runs: its kind, target and sends
    sent,           \* how many requests send_request was handed, by purpose
    outcome         \* what each caller's query returned

rootVars == <<url, root, routes, joined>>
queryVars == <<response, typename, result, routed>>
discVars == <<probe, discovered>>
clientVars == <<root_route, pc, call, sent, outcome>>
vars == <<rootVars, queryVars, discVars, clientVars>>

None == [tag |-> "None"]

-----------------------------------------------------------------------------
(* Text helpers                                                            *)

\* Position of the first element of s that is in the set cs; Len(s)+1 if none.
RECURSIVE FirstOfFrom(_, _, _)
FirstOfFrom(s, cs, i) ==
    IF i > Len(s) THEN Len(s) + 1
    ELSE IF s[i] \in cs THEN i
    ELSE FirstOfFrom(s, cs, i + 1)

FirstOf(s, cs) == FirstOfFrom(s, cs, 1)

Before(s, i) == SubSeq(s, 1, i - 1)
After(s, i) == SubSeq(s, i + 1, Len(s))

StartsWith(s, p) == Len(s) >= Len(p) /\ SubSeq(s, 1, Len(p)) = p

\* The text at position i of s starts with p.
MatchesAt(s, p, i) ==
    /\ i + Len(p) - 1 <= Len(s)
    /\ p = <<>> \/ s[i] = p[1]
    /\ SubSeq(s, i, i + Len(p) - 1) = p

\* str::split(c): the pieces of s between occurrences of c.
RECURSIVE Split(_, _)
Split(s, c) ==
    LET i == FirstOf(s, {c})
    IN  IF i > Len(s) THEN <<s>>
        ELSE <<Before(s, i)>> \o Split(After(s, i), c)

RECURSIVE Concat(_)
Concat(ss) == IF ss = <<>> THEN <<>> ELSE Head(ss) \o Concat(Tail(ss))

\* All sequences of at most n elements of S.
SeqsUpTo(S, n) == UNION {[1..k -> S] : k \in 0..n}

-----------------------------------------------------------------------------
(* url crate: Url::parse, Url::as_str, Url::query_pairs                    *)

HexVal ==
    ("0" :> 0) @@ ("1" :> 1) @@ ("2" :> 2) @@ ("3" :> 3) @@ ("4" :> 4) @@
    ("5" :> 5) @@ ("6" :> 6) @@ ("7" :> 7) @@ ("8" :> 8) @@ ("9" :> 9) @@
    ("A" :> 10) @@ ("B" :> 11) @@ ("C" :> 12) @@ ("D" :> 13) @@ ("E" :> 14) @@
    ("F" :> 15) @@ ("a" :> 10) @@ ("b" :> 11) @@ ("c" :> 12) @@ ("d" :> 13) @@
    ("e" :> 14) @@ ("f" :> 15)

\* The ASCII codes the model's inputs can produce by percent-decoding.
AsciiChar ==
    (32 :> " ") @@ (34 :> "\"") @@ (37 :> "%") @@ (38 :> "&") @@ (43 :> "+") @@
    (47 :> "/") @@ (60 :> "<") @@ (61 :> "=") @@ (62 :> ">") @@ (95 :> "_") @@
    (114 :> "r")

\* percent_encoding::percent_decode: %XX with two hex digits is one byte, any
\* other '%' stays as it is.
RECURSIVE percent_decode(_)
percent_decode(s) ==
    IF s = <<>> THEN <<>>
    ELSE IF /\ s[1] = "%"
            /\ Len(s) >= 3
            /\ s[2] \in DOMAIN HexVal
            /\ s[3] \in DOMAIN HexVal
         THEN <<AsciiChar[16 * HexVal[s[2]] + HexVal[s[3]]]>>
                  \o percent_decode(SubSeq(s, 4, Len(s)))
         ELSE <<s[1]>> \o percent_decode(Tail(s))

\* form_urlencoded::decode: '+' is a space, then percent-decoding.
replace_plus(s) == [i \in 1..Len(s) |-> IF s[i] = "+" THEN " " ELSE s[i]]

decode(s) == percent_decode(replace_plus(s))

\* form_urlencoded::parse: the pieces between '&', empty pieces skipped, each
\* split at its first '=' and both halves decoded.
RECURSIVE parse_pairs(_)
parse_pairs(pieces) ==
    IF pieces = <<>> THEN <<>>
    ELSE LET piece == Head(pieces)
             eq == FirstOf(piece, {"="})
         IN  IF piece = <<>> THEN parse_pairs(Tail(pieces))
             ELSE <<[key |-> decode(Before(piece, eq)),
                     value |-> decode(After(piece, eq))]>>
                      \o parse_pairs(Tail(pieces))

\* Url::query_pairs: the pairs of the query, none when there is no query.
query_pairs(u) ==
    IF u.has_query THEN parse_pairs(Split(u.query, "&")) ELSE <<>>

SchemeChars ==
    {"a", "b", "c", "d", "e", "f", "g", "h", "i", "j", "k", "l", "m", "n", "o",
     "p", "q", "r", "s", "t", "u", "v", "w", "x", "y", "z", "+", "-", "."}

SpecialSchemes ==
    {<<"h","t","t","p">>, <<"h","t","t","p","s">>, <<"w","s">>, <<"w","s","s">>,
     <<"f","t","p">>}

ForbiddenHostChars == {" ", "<", ">", "\"", "%", "=", ";", "?", "#", "@", ":"}

\* The percent-encode sets of the URL parser for the characters of the model.
Escape(c) ==
    CASE c = " "  -> <<"%","2","0">>
      [] c = "\"" -> <<"%","2","2">>
      [] c = "<"  -> <<"%","3","C">>
      [] c = ">"  -> <<"%","3","E">>
      [] OTHER    -> <<c>>

RECURSIVE utf8_percent_encode(_)
utf8_percent_encode(s) ==
    IF s = <<>> THEN <<>> ELSE Escape(s[1]) \o utf8_percent_encode(Tail(s))

RECURSIVE SkipSlashes(_)
SkipSlashes(s) == IF s # <<>> /\ s[1] = "/" THEN SkipSlashes(Tail(s)) ELSE s

UrlErr(kind) == [ok |-> FALSE, err |-> [kind |-> "UrlParse", source |-> kind]]

MkUrl(scheme, has_host, host, path, rest) ==
    LET hash == FirstOf(rest, {"#"})
        beforeHash == Before(rest, hash)
        q == FirstOf(beforeHash, {"?"})
    IN  [ok |-> TRUE,
         value |-> [scheme |-> scheme,
                    has_host |-> has_host,
                    host |-> host,
                    path |-> utf8_percent_encode(path),
                    has_query |-> q <= Len(beforeHash),
                    query |-> utf8_percent_encode(After(beforeHash, q)),
                    has_fragment |-> hash <= Len(rest),
                    fragment |-> utf8_percent_encode(After(rest, hash))]]

\* Url::parse for absolute input without credentials, port, dot segments,
\* tabs or newlines: scheme, then host and path by the kind of scheme, then
\* query and fragment.
ParseUrl(input) ==
    LET colon == FirstOf(input, {":"})
        scheme == Before(input, colon)
        afterScheme == After(input, colon)
        stop == FirstOf(afterScheme, {"?", "#"})
        body == Before(afterScheme, stop)
        rest == SubSeq(afterScheme, stop, Len(afterScheme))
    IN  IF \/ colon > Len(input)
           \/ scheme = <<>>
           \/ \E i \in 1..Len(scheme) : scheme[i] \notin SchemeChars
        THEN UrlErr("RelativeUrlWithoutBase")
        ELSE IF scheme \in SpecialSchemes
        THEN LET auth == SkipSlashes(body)
                 slash == FirstOf(auth, {"/"})
                 host == Before(auth, slash)
                 path == SubSeq(auth, slash, Len(auth))
             IN  IF host = <<>> THEN UrlErr("EmptyHost")
                 ELSE IF \E i \in 1..Len(host) : host[i] \in ForbiddenHostChars
                 THEN UrlErr("InvalidDomainCharacter")
                 ELSE MkUrl(scheme, TRUE, host,
                            IF path = <<>> THEN <<"/">> ELSE path, rest)
        ELSE IF StartsWith(body, <<"/", "/">>)
        THEN LET auth == SubSeq(body, 3, Len(body))
                 slash == FirstOf(auth, {"/"})
                 host == Before(auth, slash)
             IN  IF \E i \in 1..Len(host) : host[i] \in ForbiddenHostChars
                 THEN UrlErr("InvalidDomainCharacter")
                 ELSE MkUrl(scheme, TRUE, host, SubSeq(auth, slash, Len(auth)), rest)
        ELSE MkUrl(scheme, FALSE, <<>>, body, rest)

\* Url::cannot_be_a_base: the path of the URL is opaque.
cannot_be_a_base(u) == ~u.has_host /\ ~StartsWith(u.path, <<"/">>)

\* Url::as_str: the serialization.
as_str(u) ==
    u.scheme \o <<":">>
        \o (IF u.has_host THEN <<"/", "/">> \o u.host ELSE <<>>)
        \o u.path
        \o (IF u.has_query THEN <<"?">> \o u.query ELSE <<>>)
        \o (IF u.has_fragment THEN <<"#">> \o u.fragment ELSE <<>>)

-----------------------------------------------------------------------------
(* src/src/root.rs                                                         *)

REST_ROUTE_QUERY_PARAM == <<"r","e","s","t","_","r","o","u","t","e">>

Default(u) == [tag |-> "Default", url |-> u]
PrettyPermalinks(u) == [tag |-> "PrettyPermalinks", url |-> u]

\* A slip in the scan: only the first parameter is looked at.
RootRouteFromFirstOnly(u) ==
    LET pairs == query_pairs(u)
    IN  IF pairs # <<>> /\ pairs[1].key = REST_ROUTE_QUERY_PARAM
        THEN Default(u)
        ELSE PrettyPermalinks(u)

\* impl From<Url> for RootRoute
RootRouteFrom(u) ==
    LET pairs == query_pairs(u)
    IN  IF \E i \in 1..Len(pairs) : pairs[i].key = REST_ROUTE_QUERY_PARAM
        THEN Default(u)
        ELSE PrettyPermalinks(u)

\* tests::from_url: Url::parse(url).unwrap().into()
from_url(text) == RootRouteFrom(ParseUrl(text).value)

Alphanumerics ==
    {"a", "b", "c", "d", "e", "f", "g", "h", "i", "j", "k", "l", "m", "n", "o",
     "p", "q", "r", "s", "t", "u", "v", "w", "x", "y", "z",
     "A", "B", "C", "D", "E", "F", "G", "H", "I", "J", "K", "L", "M", "N", "O",
     "P", "Q", "R", "S", "T", "U", "V", "W", "X", "Y", "Z",
     "0", "1", "2", "3", "4", "5", "6", "7", "8", "9"}

UpperHex == <<"0","1","2","3","4","5","6","7","8","9","A","B","C","D","E","F">>

\* %XX for a character of the AsciiChar table.
PercentCode(c) ==
    LET n == CHOOSE k \in DOMAIN AsciiChar : AsciiChar[k] = c
    IN  <<"%", UpperHex[(n \div 16) + 1], UpperHex[(n % 16) + 1]>>

\* form_urlencoded::byte_serialize: letters, digits and * - . _ as they are,
\* a space as '+', anything else as %XX.
RECURSIVE byte_serialize(_)
byte_serialize(s) ==
    IF s = <<>> THEN <<>>
    ELSE (IF s[1] \in Alphanumerics \cup {"*", "-", ".", "_"} THEN <<s[1]>>
          ELSE IF s[1] = " " THEN <<"+">>
          ELSE PercentCode(s[1]))
             \o byte_serialize(Tail(s))

\* Serializer::append_pair and Serializer::append_key_only onto the query
\* built so far.
append_pair(built, key, value) ==
    (IF built = <<>> THEN <<>> ELSE built \o <<"&">>)
        \o byte_serialize(key) \o <<"=">> \o byte_serialize(value)

\* A slip: the key is followed by '=' all the same.
append_key_with_equals(built, key) ==
    (IF built = <<>> THEN <<>> ELSE built \o <<"&">>)
        \o byte_serialize(key) \o <<"=">>

append_key_only(built, key) ==
    (IF built = <<>> THEN <<>> ELSE built \o <<"&">>) \o byte_serialize(key)

\* A slip in the loop: the rest_route parameter keeps the value it had.
RECURSIVE rebuild_query_keeping_route(_, _, _, _)
rebuild_query_keeping_route(prev_pairs, route, i, built) ==
    IF i > Len(prev_pairs) THEN built
    ELSE LET key == prev_pairs[i].key
             value == prev_pairs[i].value
         IN  rebuild_query_keeping_route(prev_pairs, route, i + 1,
                 IF value = <<>> THEN append_key_only(built, key)
                 ELSE append_pair(built, key, value))

\* RootRoute::join, Default arm: the loop over the pairs of the root, from
\* the i-th pair on.
RECURSIVE rebuild_query(_, _, _, _)
rebuild_query(prev_pairs, route, i, built) ==
    IF i > Len(prev_pairs) THEN built
    ELSE LET key == prev_pairs[i].key
             value == prev_pairs[i].value
         IN  rebuild_query(prev_pairs, route, i + 1,
                 IF key = REST_ROUTE_QUERY_PARAM
                 THEN append_pair(built, REST_ROUTE_QUERY_PARAM, route)
                 ELSE IF value = <<>> THEN append_key_only(built, key)
                 ELSE append_pair(built, key, value))

\* A slip: one leading slash goes, as str::strip_prefix would do.
trim_start_once(route) ==
    IF route # <<>> /\ route[1] = "/" THEN Tail(route) ELSE route

\* str::trim_start_matches('/'): every leading slash goes.
trim_start_matches(route) == SkipSlashes(route)

\* The percent-encode set of a path segment set through PathSegmentsMut.
EscapeSegment(c) ==
    IF c \in {" ", "\"", "<", ">", "%", "/"} THEN PercentCode(c) ELSE <<c>>

RECURSIVE encode_segment(_)
encode_segment(s) ==
    IF s = <<>> THEN <<>> ELSE EscapeSegment(s[1]) \o encode_segment(Tail(s))

\* A slip: the empty last segment stays.
pop_never(path) == path

\* PathSegmentsMut::pop_if_empty: a trailing slash after the first one goes.
pop_if_empty(path) ==
    IF Len(path) > 1 /\ path[Len(path)] = "/"
    THEN SubSeq(path, 1, Len(path) - 1)
    ELSE path

\* PathSegmentsMut::extend: "." and ".." are passed over, any other segment
\* is appended after a '/', which is not added to a path that is just "/".
RECURSIVE extend(_, _)
extend(path, segments) ==
    IF segments = <<>> THEN path
    ELSE IF Head(segments) \in {<<".">>, <<".", ".">>}
    THEN extend(path, Tail(segments))
    ELSE extend((IF Len(path) > 1 \/ path = <<>> THEN path \o <<"/">> ELSE path)
                    \o encode_segment(Head(segments)),
                Tail(segments))

Panic == [tag |-> "Panic"]

\* RootRoute::join
join(r, route) ==
    IF r.tag = "Default"
    THEN [r.url EXCEPT
            !.has_query = TRUE,
            !.query = rebuild_query(query_pairs(r.url), route, 1, <<>>)]
    ELSE IF cannot_be_a_base(r.url) THEN Panic
    ELSE [r.url EXCEPT
            !.path = extend(pop_if_empty(r.url.path),
                            Split(trim_start_matches(route), "/"))]

-----------------------------------------------------------------------------
(* Root-route classification: the inputs of tests::from_url                *)

MaxQueryFragments == 3

ExampleCom == <<"h","t","t","p",":","/","/","e","x","a","m","p","l","e",".","c","o","m">>

QueryFragments ==
    {REST_ROUTE_QUERY_PARAM, <<"r","e","s","t">>, <<"_","r","o","u","t","e">>,
     <<"r","e","s","t","%","5","F","r","o","u","t","e">>, <<"a">>, <<"=">>, <<"&">>, <<"/">>, <<"+">>}

RootPaths ==
    {<<"/">>, <<"/","w","p","-","j","s","o","n","/">>,
     <<"/">> \o REST_ROUTE_QUERY_PARAM \o <<"=","/">>}

RootFragments == {<<>>, <<"#">> \o REST_ROUTE_QUERY_PARAM \o <<"=","1">>}

RootQueries ==
    {<<>>} \cup {<<"?">> \o Concat(fs) : fs \in SeqsUpTo(QueryFragments, MaxQueryFragments)}

RootUrlTexts ==
    {ExampleCom \o p \o q \o f : p \in RootPaths, q \in RootQueries, f \in RootFragments}

IdleRoot == url = None /\ root = None /\ routes = None /\ joined = None
IdleQuery ==
    response = None /\ typename = None /\ result = None /\ routed = None
IdleDisc == probe = None /\ discovered = None
IdleClient ==
    /\ root_route = None /\ pc = None
    /\ call = None /\ sent = None /\ outcome = None

InitRoot ==
    /\ url \in RootUrlTexts
    /\ root = None
    /\ routes = None
    /\ joined = None
    /\ IdleQuery /\ IdleDisc /\ IdleClient

\* tests::from_url
FromUrl ==
    /\ url # None
    /\ root = None
    /\ root' = from_url(url)
    /\ UNCHANGED <<url, routes, joined, queryVars, discVars, clientVars>>

NextRoot == FromUrl

SpecRoot == InitRoot /\ [][NextRoot]_vars

\* The text of the query of a URL text: what lies between the first '?' and
\* the first '#', when the '?' comes first.
QueryText(text) ==
    LET hash == FirstOf(text, {"#"})
        beforeHash == Before(text, hash)
    IN  After(beforeHash, FirstOf(beforeHash, {"?"}))

\* Some parameter of the query text q has a key that is exactly rest_route:
\* a stretch of q that starts a parameter (at the start or after '&'), ends
\* the key (at the end, before '=' or before '&'), holds no separator, and
\* reads rest_route once decoded.
HasRestRouteParam(q) ==
    \E i \in 1..Len(q) : \E j \in i..Len(q) :
        /\ i = 1 \/ q[i - 1] = "&"
        /\ j = Len(q) \/ q[j + 1] \in {"&", "="}
        /\ \A k \in i..j : q[k] \notin {"&", "="}
        /\ decode(SubSeq(q, i, j)) = REST_ROUTE_QUERY_PARAM

\* C1: a RootRoute built from a URL is the Default variant exactly when some
\* query parameter of the URL has the key rest_route, at any position and
\* with any value; otherwise it is PrettyPermalinks. Path and fragment play
\* no part.
C1_ClassifiedByRestRouteParam ==
    root # None =>
        /\ root.tag \in {"Default", "PrettyPermalinks"}
        /\ root.tag = "Default" <=> HasRestRouteParam(QueryText(url))

\* A Default root whose rest_route parameter is the second one, behind a
\* parameter with another key.
C1_Witness ==
    /\ root # None
    /\ root.tag = "Default"
    /\ Len(query_pairs(root.url)) >= 2
    /\ query_pairs(root.url)[1].key # REST_ROUTE_QUERY_PARAM
    /\ query_pairs(root.url)[2].key = REST_ROUTE_QUERY_PARAM

-----------------------------------------------------------------------------
(* serde_json: from_slice into a Value, Value::pointer, from_value         *)

Null == [t |-> "Null"]
Bool(b) == [t |-> "Bool", b |-> b]
Number(n) == [t |-> "Number", n |-> n]
String(s) == [t |-> "String", s |-> s]
Array(a) == [t |-> "Array", a |-> a]
Object(o) == [t |-> "Object", o |-> o]

Digits == <<"0","1","2","3","4","5","6","7","8","9">>
DigitSet == {Digits[i] : i \in 1..10}
DigitVal(c) == (CHOOSE i \in 1..10 : Digits[i] = c) - 1

Fail == [ok |-> FALSE]
Parsed(v, pos) == [ok |-> TRUE, v |-> v, pos |-> pos]

RECURSIVE skip_ws(_, _)
skip_ws(s, i) == IF i <= Len(s) /\ s[i] = " " THEN skip_ws(s, i + 1) ELSE i

\* A string without escapes: from the opening quote at i to the closing one.
parse_str(s, i) ==
    LET close == FirstOfFrom(s, {"\""}, i + 1)
    IN  IF close > Len(s) THEN Fail
        ELSE Parsed(SubSeq(s, i + 1, close - 1), close + 1)

RECURSIVE DecimalValue(_)
DecimalValue(ds) ==
    IF ds = <<>> THEN 0
    ELSE 10 * DecimalValue(SubSeq(ds, 1, Len(ds) - 1)) + DigitVal(ds[Len(ds)])

RECURSIVE DigitsEnd(_, _)
DigitsEnd(s, i) == IF i <= Len(s) /\ s[i] \in DigitSet THEN DigitsEnd(s, i + 1) ELSE i

\* A non-negative integer; a leading zero followed by a digit is not a number.
parse_number(s, i) ==
    LET e == DigitsEnd(s, i)
    IN  IF s[i] = "0" /\ e > i + 1 THEN Fail
        ELSE Parsed(Number(DecimalValue(SubSeq(s, i, e - 1))), e)

parse_ident(s, i, word, v) ==
    IF MatchesAt(s, word, i) THEN Parsed(v, i + Len(word)) ELSE Fail

RECURSIVE parse_value(_, _), parse_members(_, _, _), parse_elements(_, _, _)

\* Deserializer::parse_value for Value: one JSON value starting at i0.
parse_value(s, i0) ==
    LET i == skip_ws(s, i0)
    IN  IF i > Len(s) THEN Fail
        ELSE IF s[i] = "\""
        THEN LET r == parse_str(s, i)
             IN  IF r.ok THEN Parsed(String(r.v), r.pos) ELSE Fail
        ELSE IF s[i] \in DigitSet THEN parse_number(s, i)
        ELSE IF s[i] = "n" THEN parse_ident(s, i, <<"n","u","l","l">>, Null)
        ELSE IF s[i] = "t" THEN parse_ident(s, i, <<"t","r","u","e">>, Bool(TRUE))
        ELSE IF s[i] = "f"
        THEN parse_ident(s, i, <<"f","a","l","s","e">>, Bool(FALSE))
        ELSE IF s[i] = "{"
        THEN LET j == skip_ws(s, i + 1)
             IN  IF j <= Len(s) /\ s[j] = "}" THEN Parsed(Object(<<>>), j + 1)
                 ELSE parse_members(s, j, <<>>)
        ELSE IF s[i] = "["
        THEN LET j == skip_ws(s, i + 1)
             IN  IF j <= Len(s) /\ s[j] = "]" THEN Parsed(Array(<<>>), j + 1)
                 ELSE parse_elements(s, j, <<>>)
        ELSE Fail

\* The members of an object, the key of the next one expected at i; a key
\* met again replaces the earlier value (Map::insert).
parse_members(s, i, acc) ==
    IF i > Len(s) \/ s[i] # "\"" THEN Fail
    ELSE LET k == parse_str(s, i)
         IN  IF ~k.ok THEN Fail
             ELSE LET c == skip_ws(s, k.pos)
                  IN  IF c > Len(s) \/ s[c] # ":" THEN Fail
                      ELSE LET v == parse_value(s, c + 1)
                           IN  IF ~v.ok THEN Fail
                               ELSE LET e == skip_ws(s, v.pos)
                                        acc2 == (k.v :> v.v) @@ acc
                                    IN  IF e > Len(s) THEN Fail
                                        ELSE IF s[e] = "}"
                                        THEN Parsed(Object(acc2), e + 1)
                                        ELSE IF s[e] = ","
                                        THEN parse_members(s, skip_ws(s, e + 1), acc2)
                                        ELSE Fail

\* The elements of an array, the next one expected at i.
parse_elements(s, i, acc) ==
    LET v == parse_value(s, i)
    IN  IF ~v.ok THEN Fail
        ELSE LET e == skip_ws(s, v.pos)
                 acc2 == Append(acc, v.v)
             IN  IF e > Len(s) THEN Fail
                 ELSE IF s[e] = "]" THEN Parsed(Array(acc2), e + 1)
                 ELSE IF s[e] = "," THEN parse_elements(s, e + 1, acc2)
                 ELSE Fail

\* serde_json::from_slice::<Value>: one value, then nothing but whitespace.
from_slice(body) ==
    LET r == parse_value(body, 1)
    IN  IF r.ok /\ skip_ws(body, r.pos) > Len(body)
        THEN [ok |-> TRUE, value |-> r.v]
        ELSE [ok |-> FALSE]

\* Value::pointer for a pointer of one token that is no array index.
pointer(json, token) ==
    IF json.t = "Object" /\ token \in DOMAIN json.o
    THEN [some |-> TRUE, v |-> json.o[token]]
    ELSE [some |-> FALSE]

\* Value::as_str
value_as_str(v) ==
    IF v.t = "String" THEN [some |-> TRUE, v |-> v.s] ELSE [some |-> FALSE]

Ok(v) == [ok |-> TRUE, value |-> v]
Err(e) == [ok |-> FALSE, err |-> e]

TypeValue == "serde_json::value::Value"
TypeString == "alloc::string::String"
TypeU16 == "u16"
TypeNames == {TypeValue, TypeString, TypeU16}

\* serde_json::from_value::<T> for the result types of the model.
from_value(T, json) ==
    CASE T = TypeValue -> Ok([type |-> T, v |-> json])
      [] T = TypeString ->
            IF json.t = "String" THEN Ok([type |-> T, v |-> json.s])
            ELSE Err("invalid type")
      [] T = TypeU16 ->
            IF json.t = "Number" /\ json.n < 65536 THEN Ok([type |-> T, v |-> json.n])
            ELSE Err("invalid type")

-----------------------------------------------------------------------------
(* src/src/error.rs                                                        *)

KeyMessage == <<"m","e","s","s","a","g","e">>
KeyCode == <<"c","o","d","e">>
KeyData == <<"d","a","t","a">>

\* ApiError::client
client_error(source) == [kind |-> "Client", source |-> source]

\* A slip: the body is dropped from the internal error.
server_error_without_body(status, body) ==
    [kind |-> "WordPressInternal", status |-> status, data |-> <<>>]

\* ApiError::server_error
server_error(status, body) ==
    [kind |-> "WordPressInternal", status |-> status, data |-> body]

WordPressUnrecognized(json) == [kind |-> "WordPressUnrecognized", json |-> json]

\* A slip: the data field is not asked for.
from_json_without_data(json) ==
    LET message == pointer(json, KeyMessage)
        code == pointer(json, KeyCode)
    IN  IF message.some /\ code.some
           /\ value_as_str(message.v).some /\ value_as_str(code.v).some
        THEN [kind |-> "WordPress",
              message |-> value_as_str(message.v).v,
              code |-> value_as_str(code.v).v,
              data |-> Null]
        ELSE WordPressUnrecognized(json)

\* ApiError::from_json
from_json(json) ==
    LET message == pointer(json, KeyMessage)
        code == pointer(json, KeyCode)
        data == pointer(json, KeyData)
    IN  IF ~(message.some /\ code.some /\ data.some)
        THEN WordPressUnrecognized(json)
        ELSE LET m == value_as_str(message.v)
                 c == value_as_str(code.v)
             IN  IF m.some /\ c.some
                 THEN [kind |-> "WordPress",
                       message |-> m.v, code |-> c.v, data |-> data.v]
                 ELSE WordPressUnrecognized(json)

\* ApiError::data_type::<T>
data_type(T, source) == [kind |-> "DataType", source |-> source, typename |-> T]

-----------------------------------------------------------------------------
(* src/src/request.rs                                                      *)

\* StatusCode::is_success
is_success(status) == 200 <= status /\ status < 300

\* A slip: the status is looked at before the body is parsed, and the body
\* of a success is handed on as it is.
interpret_status_first(resp, T) ==
    LET json == from_slice(resp.body)
    IN  IF ~is_success(resp.status)
        THEN Err(IF json.ok THEN from_json(json.value)
                 ELSE WordPressUnrecognized(Null))
        ELSE IF ~json.ok THEN Ok([type |-> T, v |-> Null])
        ELSE Ok([type |-> T, v |-> json.value])

\* RequestBuilder::query, from the answer of send_request on: parse the body,
\* then the status, then the requested type.
interpret(resp, T) ==
    LET json == from_slice(resp.body)
    IN  IF ~json.ok THEN Err(server_error(resp.status, resp.body))
        ELSE IF ~is_success(resp.status) THEN Err(from_json(json.value))
        ELSE LET typed == from_value(T, json.value)
             IN  IF typed.ok THEN typed ELSE Err(data_type(T, typed.err))

\* A slip: a failure to send is taken for an answer of the server.
query_interpreting_failure(sending, T) ==
    IF ~sending.ok THEN Err(server_error(500, <<>>))
    ELSE interpret(sending.value, T)

\* RequestBuilder::query once the request is built: `sending` is what
\* send_request returns, a failure of it is returned as it is.
query(sending, T) ==
    IF ~sending.ok THEN sending ELSE interpret(sending.value, T)

-----------------------------------------------------------------------------
(* src/src/endpoint.rs                                                     *)

\* impl Query for E: Endpoint, from the answer of send_request on: the body,
\* then the status, then the requested type.
endpoint_interpret(resp, T) ==
    LET json == from_slice(resp.body)
    IN  IF ~json.ok THEN Err(server_error(resp.status, resp.body))
        ELSE IF ~is_success(resp.status) THEN Err(from_json(json.value))
        ELSE LET typed == from_value(T, json.value)
             IN  IF typed.ok THEN typed ELSE Err(data_type(T, typed.err))

\* impl Query for E: Endpoint: `resolved` is what route_url returns and
\* `sending` what send_request returns; a failure of either is returned as
\* it is.
endpoint_query(resolved, sending, T) ==
    IF ~resolved.ok THEN resolved
    ELSE IF ~sending.ok THEN sending
    ELSE endpoint_interpret(sending.value, T)

-----------------------------------------------------------------------------
(* Response interpretation: the inputs, as in the tests of request.rs      *)

MaxFields == 3

FieldTexts ==
    {<<"\"","m","e","s","s","a","g","e","\"",":","\"","I","n","v","a","l","i","d"," ","p","o","s","t"," ","I","D",".","\"">>,
     <<"\"","m","e","s","s","a","g","e","\"",":","4","0","4">>,
     <<"\"","c","o","d","e","\"",":","\"","r","e","s","t","_","p","o","s","t","_","i","n","v","a","l","i","d","_","i","d","\"">>,
     <<"\"","c","o","d","e","\"",":","n","u","l","l">>,
     <<"\"","d","a","t","a","\"",":","{","\"","s","t","a","t","u","s","\"",":","4","0","4","}">>,
     <<"\"","d","a","t","a","\"",":","n","u","l","l">>,
     <<"\"","b","o","b","\"",":","\"","l","o","b","l","a","w","\"">>}

RECURSIVE JoinWith(_, _)
JoinWith(ss, sep) ==
    IF ss = <<>> THEN <<>>
    ELSE IF Len(ss) = 1 THEN ss[1]
    ELSE ss[1] \o sep \o JoinWith(Tail(ss), sep)

\* serde_json::to_vec of an object with the given fields.
ObjectText(fields) == <<"{">> \o JoinWith(fields, <<",">>) \o <<"}">>

ErrorPayloadFields ==
    <<<<"\"","c","o","d","e","\"",":","\"","r","e","s","t","_","p","o","s","t","_","i","n","v","a","l","i","d","_","i","d","\"">>,
      <<"\"","d","a","t","a","\"",":","{","\"","s","t","a","t","u","s","\"",":","4","0","4","}">>,
      <<"\"","m","e","s","s","a","g","e","\"",":","\"","I","n","v","a","l","i","d"," ","p","o","s","t"," ","I","D",".","\"">>>>

NullDataPayloadFields ==
    <<ErrorPayloadFields[1],
      <<"\"","d","a","t","a","\"",":","n","u","l","l">>,
      ErrorPayloadFields[3]>>

NotJsonText == <<"n","o","t"," ","j","s","o","n">>

\* Bodies no JSON parser accepts.
NotJsonBodies ==
    {<<>>, NotJsonText, <<"{">>, <<" ">>, <<"0","1">>, <<"[","4","0","4",",","]">>,
     <<"{","\"","b","o","b","\"",":","\"","l","o","b","l","a","w","\"">>,
     <<"{","\"","b","o","b","\"",":","\"","l","o","b","l","a","w","\"",",","}">>,
     <<"{","\"","b","o","b","\""," ","\"","l","o","b","l","a","w","\"","}">>,
     ObjectText(ErrorPayloadFields) \o <<"x">>,
     ObjectText(ErrorPayloadFields) \o ObjectText(ErrorPayloadFields)}

\* Bodies that are JSON values but no objects.
ScalarBodies ==
    {<<"n","u","l","l">>, <<"t","r","u","e">>, <<"4","0","4">>, <<"0">>,
     <<"7","0","0","0","0">>,
     <<"\"","l","o","b","l","a","w","\"">>, <<"[","4","0","4",",","n","u","l","l","]">>,
     <<"[","]">>, <<" ","{"," ","}"," ">>}

Bodies ==
    {ObjectText(fs) : fs \in SeqsUpTo(FieldTexts, MaxFields)}
        \cup {ObjectText(ErrorPayloadFields), ObjectText(NullDataPayloadFields)}
        \cup NotJsonBodies \cup ScalarBodies

StatusCodes == {199, 200, 204, 299, 300, 404, 500}

MockClientError == client_error("mock client error")

\* What the send_request of WordPress makes of a failure of its HTTP client.
ExecuteError == client_error("reqwest::Error")

\* MockClient::route_url of the route of MockEndpoint
MockRouteUrl ==
    ParseUrl(<<"t","e","s","t",":","/","/","t","e","s","t","/">>
                 \o trim_start_matches(<<"/","m","o","c","k">>))

Sendings ==
    {Ok([status |-> st, body |-> b]) : st \in StatusCodes, b \in Bodies}
        \cup {Err(MockClientError), Err(ExecuteError)}

InitQuery ==
    /\ response \in Sendings
    /\ typename \in TypeNames
    /\ result = None
    /\ routed = None
    /\ IdleRoot /\ IdleDisc /\ IdleClient

\* impl Query for RequestBuilder: query(), after build()
Query ==
    /\ response # None
    /\ result = None
    /\ result' = query(response, typename)
    /\ UNCHANGED <<response, typename, routed, rootVars, discVars, clientVars>>

\* impl Query for E: Endpoint: query() of MockEndpoint
QueryRouted ==
    /\ response # None
    /\ routed = None
    /\ routed' = endpoint_query(MockRouteUrl, response, typename)
    /\ UNCHANGED <<response, typename, result, rootVars, discVars, clientVars>>

NextQuery == Query \/ QueryRouted

SpecQuery == InitQuery /\ [][NextQuery]_vars

Answered == result # None /\ response.ok
Status == response.value.status
Body == response.value.body

\* C2: when the request was sent and answered and the body is not JSON (an
\* empty body included), the result is the internal error with exactly the
\* status and the raw body of the response, whatever the status is.
C2_UnparsableBodyIsInternalError ==
    (Answered /\ (~from_slice(Body).ok \/ Body \in NotJsonBodies)) =>
        result = Err([kind |-> "WordPressInternal",
                      status |-> Status, data |-> Body])

\* An answer with an error status and the body `not json`, and the query done.
C2_Witness ==
    /\ Answered
    /\ Status = 404
    /\ Body = NotJsonText
    /\ result.err.kind = "WordPressInternal"

\* The application-error shape: an object with a string message, a string
\* code and a data field of any type.
HasErrorShape(v) ==
    /\ v.t = "Object"
    /\ {KeyMessage, KeyCode, KeyData} \subseteq DOMAIN v.o
    /\ v.o[KeyMessage].t = "String"
    /\ v.o[KeyCode].t = "String"

\* C3: on a non-success status with a JSON body, the result is the
\* application error with the payload's message, code and data when the value
\* has the error shape, and otherwise the unrecognized error carrying the
\* whole value.
C3_ErrorStatusClassifiedByShape ==
    (Answered /\ ~is_success(Status) /\ from_slice(Body).ok) =>
        LET v == from_slice(Body).value
        IN  /\ ~result.ok
            /\ IF HasErrorShape(v)
               THEN result.err = [kind |-> "WordPress",
                                  message |-> v.o[KeyMessage].s,
                                  code |-> v.o[KeyCode].s,
                                  data |-> v.o[KeyData]]
               ELSE result.err = [kind |-> "WordPressUnrecognized", json |-> v]
            /\ Body = ObjectText(ErrorPayloadFields) =>
                   /\ result.err.kind = "WordPress"
                   /\ result.err.code = SubSeq(ErrorPayloadFields[1], 9, 28)
                   /\ result.err.data = Object(<<"s","t","a","t","u","s">> :> Number(404))
            /\ Body \in ScalarBodies => result.err.kind = "WordPressUnrecognized"

\* An error payload whose data is null, answered with status 404.
C3_Witness ==
    /\ Answered
    /\ Status = 404
    /\ Body = ObjectText(NullDataPayloadFields)
    /\ result.err.kind = "WordPress"
    /\ result.err.data = Null

\* C4: on a success status with a JSON body, the result is the value of the
\* requested type read from that JSON value, or the data-type error naming
\* the requested type; never the application or the unrecognized error.
C4_SuccessIsTypedOrDataTypeError ==
    (Answered /\ is_success(Status) /\ from_slice(Body).ok) =>
        LET v == from_slice(Body).value
            fits == \/ typename = TypeValue
                    \/ typename = TypeString /\ v.t = "String"
                    \/ typename = TypeU16 /\ v.t = "Number" /\ v.n <= 65535
        IN  IF fits
            THEN /\ result.ok
                 /\ result.value.type = typename
                 /\ result.value.v =
                        (CASE typename = TypeValue -> v
                           [] typename = TypeString -> v.s
                           [] typename = TypeU16 -> v.n)
            ELSE /\ ~result.ok
                 /\ result.err.kind = "DataType"
                 /\ result.err.typename = typename

\* A success status with a body of the error shape, returned as a Value.
C4_Witness ==
    /\ Answered
    /\ Status = 200
    /\ Body = ObjectText(ErrorPayloadFields)
    /\ typename = TypeValue
    /\ result.ok
    /\ HasErrorShape(result.value.v)

InterpretedKinds ==
    {"WordPressInternal", "WordPress", "WordPressUnrecognized", "DataType"}

\* C15: when send_request fails, the query returns that very failure, a
\* Client error, and nothing of the interpretation is applied to it: it is
\* never an internal, application, unrecognized or data-type error.
C15_SendFailureUnchanged ==
    (result # None /\ ~response.ok) =>
        /\ result = response
        /\ ~result.ok
        /\ result.err.kind = "Client"
        /\ result.err.kind \notin InterpretedKinds

\* The HTTP client of WordPress failed, a String was asked for, and the query
\* returned the failure.
C15_Witness ==
    /\ result # None
    /\ response = Err(ExecuteError)
    /\ typename = TypeString
    /\ result = Err(ExecuteError)

\* C18: for every answer of send_request and every requested type, the query
\* of an endpoint whose route the client resolved and the query of a request
\* with a URL return the same outcome: the same typed value or the same
\* error with the same contents.
C18_SameOutcomeByRouteOrUrl ==
    (result # None /\ routed # None) => routed = result

\* Both queries made on a 404 with the error payload, and both returned the
\* WordPress error.
C18_Witness ==
    /\ result # None
    /\ routed # None
    /\ MockRouteUrl.ok
    /\ response.ok
    /\ Status = 404
    /\ Body = ObjectText(ErrorPayloadFields)
    /\ ~routed.ok
    /\ routed.err.kind = "WordPress"

-----------------------------------------------------------------------------
(* src/src/client.rs                                                       *)

\* The text after the capture group of the two patterns.
RootRouteSuffix ==
    <<">",";"," ","r","e","l","=","\"","h","t","t","p","s",":","/","/","a","p","i",".","w",".","o","r","g","/","\"">>

ResourceSuffix ==
    <<">",";"," ","r","e","l","=","\"","a","l","t","e","r","n","a","t","e","\"",";"," ","t","y","p","e","=","\"","a","p","p","l","i","c","a","t","i","o","n","/","j","s","o","n","\"">>

\* regex!("<(.*)>; rel=\"https://api.w.org/\"")
RootRoutePattern == [open |-> <<"<">>, suffix |-> RootRouteSuffix]

\* A slip: the pattern asks for a relation, whichever it is.
ResourcePatternAnyRelation ==
    [open |-> <<"<">>, suffix |-> SubSeq(ResourceSuffix, 1, 8)]

\* regex!("<(.*)>; rel=\"alternate\"; type=\"application/json\"")
ResourcePattern == [open |-> <<"<">>, suffix |-> ResourceSuffix]

\* Bytes of a header value that are no visible ASCII.
NonAsciiBytes == {"0xC3", "0xA9"}

\* HeaderValue::to_str: fails when a byte is no visible ASCII.
to_str(header) ==
    IF \E i \in 1..Len(header) : header[i] \in NonAsciiBytes
    THEN [ok |-> FALSE]
    ELSE [ok |-> TRUE, value |-> header]

\* Regex::captures for a pattern `<(.*)suffix`, unanchored: the leftmost '<'
\* that some later occurrence of the suffix follows, the group running
\* greedily up to the last such occurrence.
captures(re, text) ==
    LET ends == {j \in 1..Len(text) : MatchesAt(text, re.suffix, j)}
        starts == {i \in 1..Len(text) :
                       MatchesAt(text, re.open, i) /\ \E j \in ends : j > i}
    IN  IF starts = {} THEN [some |-> FALSE]
        ELSE LET i == CHOOSE x \in starts : \A y \in starts : x <= y
                 j == CHOOSE x \in ends : \A y \in ends : y <= x
             IN  [some |-> TRUE, group1 |-> SubSeq(text, i + 1, j - 1)]

NoUrl == [some |-> FALSE]
SomeUrl(u) == [some |-> TRUE, url |-> u]

\* A slip: the scan gives up at the first occurrence that does not match.
RECURSIVE scan_until_mismatch(_, _, _)
scan_until_mismatch(links, re, i) ==
    IF i > Len(links) THEN [ret |-> Ok(NoUrl), examined |-> i - 1]
    ELSE LET header == to_str(links[i])
         IN  IF ~header.ok THEN scan_until_mismatch(links, re, i + 1)
             ELSE LET caps == captures(re, header.value)
                  IN  IF ~caps.some THEN [ret |-> Ok(NoUrl), examined |-> i]
                      ELSE LET link == ParseUrl(caps.group1)
                           IN  [ret |-> IF link.ok THEN Ok(SomeUrl(link.value))
                                        ELSE link,
                                examined |-> i]

\* A slip: an occurrence that is no text ends the scan with an error.
RECURSIVE scan_strict(_, _, _)
scan_strict(links, re, i) ==
    IF i > Len(links) THEN [ret |-> Ok(NoUrl), examined |-> i - 1]
    ELSE LET header == to_str(links[i])
         IN  IF ~header.ok
             THEN [ret |-> Err([kind |-> "Request", source |-> "to_str"]),
                   examined |-> i]
             ELSE LET caps == captures(re, header.value)
                  IN  IF ~caps.some THEN scan_strict(links, re, i + 1)
                      ELSE LET link == ParseUrl(caps.group1)
                           IN  [ret |-> IF link.ok THEN Ok(SomeUrl(link.value))
                                        ELSE link,
                                examined |-> i]

\* link_header_discovery, the loop over resp.headers().get_all("link") from
\* its i-th occurrence on; `examined` counts the occurrences the loop took up.
RECURSIVE scan(_, _, _)
scan(links, re, i) ==
    IF i > Len(links) THEN [ret |-> Ok(NoUrl), examined |-> i - 1]
    ELSE LET header == to_str(links[i])
         IN  IF ~header.ok THEN scan(links, re, i + 1)
             ELSE LET caps == captures(re, header.value)
                  IN  IF ~caps.some THEN scan(links, re, i + 1)
                      ELSE LET link == ParseUrl(caps.group1)
                           IN  [ret |-> IF link.ok THEN Ok(SomeUrl(link.value))
                                        ELSE link,
                                examined |-> i]

\* link_header_discovery: `sending` is what send_request returns for the HEAD
\* request to the URL; a failure of it is returned as it is.
link_header_discovery(sending, re) ==
    IF ~sending.ok THEN [ret |-> sending, examined |-> 0]
    ELSE scan(sending.value.links, re, 1)

\* ApiError::root_route_discovery and ApiError::resource_discovery
root_route_discovery(u) == [kind |-> "RootRouteDiscovery", url |-> u]
resource_discovery(u) == [kind |-> "ResourceDiscovery", url |-> u]

\* What a derived operation returns when the text to probe is no URL:
\* nothing is sent.
NotProbed(parsed) == [ret |-> parsed, examined |-> 0, sends |-> 0]

\* Client::discover_root_route
discover_root_route(text, sending) ==
    LET parsed == ParseUrl(text)
    IN  IF ~parsed.ok THEN NotProbed(parsed)
        ELSE LET found == link_header_discovery(sending, RootRoutePattern)
             IN  [ret |-> IF ~found.ret.ok THEN found.ret
                          ELSE IF ~found.ret.value.some
                          THEN Err(root_route_discovery(parsed.value))
                          ELSE Ok(RootRouteFrom(found.ret.value.url)),
                  examined |-> found.examined,
                  sends |-> 1]

\* Client::discover_resource
discover_resource(text, sending) ==
    LET parsed == ParseUrl(text)
    IN  IF ~parsed.ok THEN NotProbed(parsed)
        ELSE LET found == link_header_discovery(sending, ResourcePattern)
             IN  [ret |-> IF ~found.ret.ok THEN found.ret
                          ELSE IF ~found.ret.value.some
                          THEN Err(resource_discovery(parsed.value))
                          ELSE Ok(found.ret.value.url),
                  examined |-> found.examined,
                  sends |-> 1]

-----------------------------------------------------------------------------
(* Discovery: the inputs, as in the tests of client.rs and wordpress.rs    *)

MaxLinks == 3

ShortlinkSuffix ==
    <<">",";"," ","r","e","l","=","\"","s","h","o","r","t","l","i","n","k","\"">>

\* One occurrence of the link header: <URL> followed by its relation.
Link(text, suffix) == <<"<">> \o text \o suffix

WpJsonUrl == ExampleCom \o <<"/","w","p","-","j","s","o","n","/">>
RestRouteUrl == ExampleCom \o <<"/","?","r","e","s","t","_","r","o","u","t","e","=","/">>
PostUrl == ExampleCom \o <<"/","w","p","-","j","s","o","n","/","w","p","/","v","2","/","p","o","s","t","s","/","1">>
PageUrl == ExampleCom \o <<"/","w","p","-","j","s","o","n","/","w","p","/","v","2","/","p","a","g","e","s","/","2">>
ShortUrl == ExampleCom \o <<"/","?","p","=","1">>
RelativeText == <<"/","w","p","-","j","s","o","n","/">>

RootLinkTexts == {WpJsonUrl, RestRouteUrl}
ResourceLinkTexts == {PostUrl, PageUrl}

LinkHeaders ==
    {Link(t, RootRouteSuffix) : t \in RootLinkTexts}
        \cup {Link(t, ResourceSuffix) : t \in ResourceLinkTexts}
        \cup {Link(ShortUrl, ShortlinkSuffix),
              Link(PageUrl \o <<"0xC3", "0xA9">>, RootRouteSuffix \o ResourceSuffix),
              Link(RelativeText, RootRouteSuffix),
              Link(ShortUrl, ShortlinkSuffix) \o <<",", " ">>
                  \o Link(PostUrl, ResourceSuffix)}

ProbeTexts == {ShortUrl, RelativeText}

ProbeAnswers ==
    {Ok([status |-> 200, links |-> ls]) : ls \in SeqsUpTo(LinkHeaders, MaxLinks)}
        \cup {Err(MockClientError)}

InitDisc ==
    /\ probe \in [url : ProbeTexts, sending : ProbeAnswers]
    /\ discovered = None
    /\ IdleRoot /\ IdleQuery /\ IdleClient

DiscoverRootRoute ==
    /\ probe # None
    /\ discovered = None
    /\ discovered' = [op |-> "discover_root_route",
                      re |-> RootRoutePattern,
                      out |-> discover_root_route(probe.url, probe.sending)]
    /\ UNCHANGED <<probe, rootVars, queryVars, clientVars>>

DiscoverResource ==
    /\ probe # None
    /\ discovered = None
    /\ discovered' = [op |-> "discover_resource",
                      re |-> ResourcePattern,
                      out |-> discover_resource(probe.url, probe.sending)]
    /\ UNCHANGED <<probe, rootVars, queryVars, clientVars>>

NextDisc == DiscoverRootRoute \/ DiscoverResource

SpecDisc == InitDisc /\ [][NextDisc]_vars

Probed == discovered # None /\ ParseUrl(probe.url).ok /\ probe.sending.ok
Links == probe.sending.value.links

\* The URL a derived operation found: discover_root_route wraps it in a
\* RootRoute.
FoundUrl ==
    IF discovered.op = "discover_root_route"
    THEN discovered.out.ret.value.url
    ELSE discovered.out.ret.value

Decodable(header) == \A i \in 1..Len(header) : header[i] \notin NonAsciiBytes

\* The header holds a '<' and, somewhere after it, the text that the
\* relation's pattern asks for after the URL.
MatchesRelation(re, header) ==
    \E j \in 2..Len(header) :
        /\ MatchesAt(header, re.suffix, j)
        /\ \E i \in 1..(j - 1) : header[i] = "<"

Candidate(re, header) == Decodable(header) /\ MatchesRelation(re, header)

\* The first occurrence that is text and matches, 0 if there is none.
FirstCandidate(re, links) ==
    IF \E i \in 1..Len(links) : Candidate(re, links[i])
    THEN CHOOSE i \in 1..Len(links) :
            /\ Candidate(re, links[i])
            /\ \A k \in 1..(i - 1) : ~Candidate(re, links[k])
    ELSE 0

\* The same derived operation on the same URL, answered with other links.
Rerun(links) ==
    LET sending == Ok([status |-> 200, links |-> links])
    IN  IF discovered.op = "discover_root_route"
        THEN discover_root_route(probe.url, sending)
        ELSE discover_resource(probe.url, sending)

\* C5: discovery takes the link occurrences in header order and returns the
\* URL captured from the first one that is text and matches the relation's
\* pattern: the occurrences before it are passed over, those after it are
\* never taken up and change nothing.
C5_FirstMatchingOccurrenceWins ==
    Probed =>
        LET first == FirstCandidate(discovered.re, Links)
        IN  first > 0 =>
                /\ discovered.out.examined = first
                /\ discovered.out.ret = Rerun(<<Links[first]>>).ret
                /\ discovered.out.ret = Rerun(SubSeq(Links, 1, first)).ret
                /\ \A t \in RootLinkTexts \cup ResourceLinkTexts :
                       Links[first] = Link(t, discovered.re.suffix) =>
                           /\ discovered.out.ret.ok
                           /\ FoundUrl = ParseUrl(t).value
                           /\ as_str(FoundUrl) = t

\* The first matching occurrence is the second of three: the one before it
\* is no text, the one after it matches too and names another URL.
C5_Witness ==
    /\ Probed
    /\ discovered.op = "discover_resource"
    /\ Len(Links) = 3
    /\ Links[1] = Link(PageUrl \o <<"0xC3", "0xA9">>, RootRouteSuffix \o ResourceSuffix)
    /\ Links[2] = Link(PageUrl, ResourceSuffix)
    /\ Links[3] = Link(PostUrl, ResourceSuffix)
    /\ discovered.out.ret.ok
    /\ as_str(discovered.out.ret.value) = PageUrl

\* The three occurrences of tests::duplicate_headers, in some order.
ThreeRelations(links, rootText, resourceText) ==
    /\ Len(links) = 3
    /\ {links[i] : i \in 1..3} =
           {Link(rootText, RootRouteSuffix), Link(resourceText, ResourceSuffix),
            Link(ShortUrl, ShortlinkSuffix)}

\* C6: with one occurrence for the root-route relation, one for the resource
\* relation and one shortlink, in any order, resource discovery returns the
\* URL of the resource occurrence and root-route discovery the URL of the
\* root-route occurrence.
C6_RelationsAreToldApart ==
    Probed =>
        \A r \in RootLinkTexts : \A s \in ResourceLinkTexts :
            ThreeRelations(Links, r, s) =>
                /\ discovered.out.ret.ok
                /\ discovered.op = "discover_resource" =>
                       as_str(discovered.out.ret.value) = s
                /\ discovered.op = "discover_root_route" =>
                       as_str(discovered.out.ret.value.url) = r

\* Resource discovery on shortlink, root route, resource, in that order.
C6_Witness ==
    /\ Probed
    /\ discovered.op = "discover_resource"
    /\ Links = <<Link(ShortUrl, ShortlinkSuffix), Link(RestRouteUrl, RootRouteSuffix),
                 Link(PostUrl, ResourceSuffix)>>
    /\ discovered.out.ret = Ok(ParseUrl(PostUrl).value)

C16_OnlyExhaustionFails ==
    (Probed /\ ~discovered.out.ret.ok) =>
        /\ discovered.out.examined = Len(Links)
        /\ FirstCandidate(discovered.re, Links) = 0
        /\ discovered.out.ret.err.kind \in {"RootRouteDiscovery", "ResourceDiscovery"}

-----------------------------------------------------------------------------
(* src/src/wordpress.rs, src/src/endpoint.rs, src/src/document.rs:         *)
(* concurrent queries on one WordPress client                              *)

NumTasks == 2

Tasks == 1..NumTasks

\* OnceCell::new: no value, one permit in the semaphore.
EmptyCell == [value_set |-> FALSE, value |-> None, permits |-> 1, closed |-> FALSE]

\* A slip: the permit stays in the semaphore while the initialiser runs.
acquire_without_taking(cell) == cell

\* Semaphore::acquire, granted: the one permit is taken.
acquire(cell) == [cell EXCEPT !.permits = 0]

\* A slip: the failure closes the cell, which stays empty for good.
release_closing(cell) == [cell EXCEPT !.closed = TRUE]

\* get_or_try_init, the initialiser failed: the permit is dropped, back into
\* the semaphore, and the cell stays empty.
release(cell) == [cell EXCEPT !.permits = 1]

\* A slip: the value is stored but the semaphore is left open with its
\* permit back in it.
set_value_and_release(cell, value) ==
    [cell EXCEPT !.value_set = TRUE, !.value = value, !.permits = 1]

\* OnceCell::set_value: the value is stored, the semaphore is closed and the
\* permit is forgotten.
set_value(cell, value) ==
    [cell EXCEPT !.value_set = TRUE, !.value = value, !.closed = TRUE]

\* WordPress::route_url once root_route() returned the root.
route_url(r, route) == join(r, route)

\* A slip: a query that ends in an error is sent again.
after_answer_with_retry(res) == IF res.ok THEN "done" ELSE "send"

\* RequestBuilder::query returns what it made of the one answer.
after_answer(res) == "done"

SiteUrl == ExampleCom
PostRoute == <<"/","w","p","/","v","2","/","p","o","s","t","s","/","1">>

\* What the site may answer to a HEAD request.
HeadAnswers ==
    {Ok([status |-> 200,
         links |-> <<Link(WpJsonUrl, RootRouteSuffix), Link(PostUrl, ResourceSuffix),
                     Link(ShortUrl, ShortlinkSuffix)>>]),
     Ok([status |-> 200, links |-> <<Link(RestRouteUrl, RootRouteSuffix)>>]),
     Ok([status |-> 200, links |-> <<>>]),
     Ok([status |-> 200, links |-> <<Link(RelativeText, RootRouteSuffix)>>]),
     Err(client_error("communication with wordpress"))}

\* What the site may answer to the request of a query.
GetAnswers ==
    {Ok([status |-> 200, body |-> <<"{","\"","i","d","\"",":","1","}">>]),
     Err(client_error("communication with wordpress"))}

NoCall == [kind |-> "none"]

NewCall(kind) ==
    [kind |-> kind,
     cached |-> root_route.value_set,   \* the root route was cached at the start
     waited_for |-> 0,                  \* whose attempt was in flight on arrival
     probes |-> 0,                      \* HEAD requests this query sent
     requests |-> 0,                    \* requests of its own this query sent
     target |-> None]                   \* the URL the target resolved to

InitClient ==
    /\ root_route = EmptyCell
    /\ pc = [t \in Tasks |-> "idle"]
    /\ call = [t \in Tasks |-> NoCall]
    /\ sent = [root_route |-> 0, resource |-> 0, request |-> 0]
    /\ outcome = [t \in Tasks |-> None]
    /\ IdleRoot /\ IdleQuery /\ IdleDisc

Holder == {t \in Tasks : pc[t] = "init"}

\* impl Query for RequestBuilder: a query on a URL the caller resolved.
QueryUrl(t) ==
    /\ root_route # None
    /\ pc[t] = "idle"
    /\ call' = [call EXCEPT ![t] =
                    [NewCall("url") EXCEPT !.target = ParseUrl(PostUrl).value]]
    /\ pc' = [pc EXCEPT ![t] = "send"]
    /\ UNCHANGED <<root_route, sent, outcome, rootVars, queryVars, discVars>>

\* impl Query for E: Endpoint: client.route_url(&self.route()) is called.
QueryEndpoint(t) ==
    /\ root_route # None
    /\ pc[t] = "idle"
    /\ call' = [call EXCEPT ![t] = NewCall("endpoint")]
    /\ pc' = [pc EXCEPT ![t] = "route_url"]
    /\ UNCHANGED <<root_route, sent, outcome, rootVars, queryVars, discVars>>

\* impl Query for Document: discover_resource parses the URL of the document
\* and sends its HEAD request.
QueryDocument(t) ==
    /\ root_route # None
    /\ pc[t] = "idle"
    /\ call' = [call EXCEPT ![t] = [NewCall("document") EXCEPT !.probes = 1]]
    /\ sent' = [sent EXCEPT !.resource = @ + 1]
    /\ pc' = [pc EXCEPT ![t] = "discover"]
    /\ UNCHANGED <<root_route, outcome, rootVars, queryVars, discVars>>

\* discover_resource: the HEAD request is answered.
ResourceDiscovered(t) ==
    /\ root_route # None
    /\ pc[t] = "discover"
    /\ \E answer \in HeadAnswers :
        LET found == discover_resource(ShortUrl, answer).ret
        IN  IF found.ok
            THEN /\ call' = [call EXCEPT ![t].target = found.value]
                 /\ pc' = [pc EXCEPT ![t] = "send"]
                 /\ UNCHANGED outcome
            ELSE /\ outcome' = [outcome EXCEPT ![t] = found]
                 /\ pc' = [pc EXCEPT ![t] = "done"]
                 /\ UNCHANGED call
    /\ UNCHANGED <<root_route, sent, rootVars, queryVars, discVars>>

\* WordPress::root_route, get_or_try_init: a cell that holds a value is read
\* at once; otherwise the caller goes on to the semaphore.
GetOrTryInit(t) ==
    /\ root_route # None
    /\ pc[t] = "route_url"
    /\ IF root_route.value_set
       THEN /\ call' = [call EXCEPT ![t].target = route_url(root_route.value, PostRoute)]
            /\ pc' = [pc EXCEPT ![t] = "send"]
       ELSE /\ call' = [call EXCEPT ![t].waited_for =
                            IF Holder = {} THEN 0 ELSE CHOOSE h \in Holder : TRUE]
            /\ pc' = [pc EXCEPT ![t] = "acquire"]
    /\ UNCHANGED <<root_route, sent, outcome, rootVars, queryVars, discVars>>

\* get_or_try_init, semaphore.acquire() returns the permit: the initialiser
\* discover_root_route(&self.site_url) starts and sends its HEAD request.
AcquirePermit(t) ==
    /\ root_route # None
    /\ pc[t] = "acquire"
    /\ ~root_route.closed
    /\ root_route.permits > 0
    /\ root_route' = acquire(root_route)
    /\ call' = [call EXCEPT ![t].probes = @ + 1]
    /\ sent' = [sent EXCEPT !.root_route = @ + 1]
    /\ pc' = [pc EXCEPT ![t] = "init"]
    /\ UNCHANGED <<outcome, rootVars, queryVars, discVars>>

\* get_or_try_init, semaphore.acquire() fails because the semaphore was
\* closed: the value another caller stored is read.
AcquireClosed(t) ==
    /\ root_route # None
    /\ pc[t] = "acquire"
    /\ root_route.closed
    /\ call' = [call EXCEPT ![t].target = route_url(root_route.value, PostRoute)]
    /\ pc' = [pc EXCEPT ![t] = "send"]
    /\ UNCHANGED <<root_route, sent, outcome, rootVars, queryVars, discVars>>

\* get_or_try_init, the initialiser returns: a root route is stored, an
\* error is handed to this caller alone.
InitReturns(t) ==
    /\ root_route # None
    /\ pc[t] = "init"
    /\ \E answer \in HeadAnswers :
        LET found == discover_root_route(SiteUrl, answer).ret
        IN  IF found.ok
            THEN /\ root_route' = set_value(root_route, found.value)
                 /\ call' = [call EXCEPT ![t].target = route_url(found.value, PostRoute)]
                 /\ pc' = [pc EXCEPT ![t] = "send"]
                 /\ UNCHANGED outcome
            ELSE /\ root_route' = release(root_route)
                 /\ outcome' = [outcome EXCEPT ![t] = found]
                 /\ pc' = [pc EXCEPT ![t] = "done"]
                 /\ UNCHANGED call
    /\ UNCHANGED <<sent, rootVars, queryVars, discVars>>

\* The request to the resolved target is built and handed to send_request.
Send(t) ==
    /\ root_route # None
    /\ pc[t] = "send"
    /\ call' = [call EXCEPT ![t].requests = @ + 1]
    /\ sent' = [sent EXCEPT !.request = @ + 1]
    /\ pc' = [pc EXCEPT ![t] = "await"]
    /\ UNCHANGED <<root_route, outcome, rootVars, queryVars, discVars>>

\* send_request returns and the query interprets the answer.
Answer(t) ==
    /\ root_route # None
    /\ pc[t] = "await"
    /\ \E answer \in GetAnswers :
        LET res == IF call[t].kind = "endpoint"
                   THEN endpoint_query(Ok(call[t].target), answer, TypeValue)
                   ELSE query(answer, TypeValue)
        IN  /\ outcome' = [outcome EXCEPT ![t] = res]
            /\ pc' = [pc EXCEPT ![t] = after_answer(res)]
    /\ UNCHANGED <<root_route, call, sent, rootVars, queryVars, discVars>>

NextClient ==
    \E t \in Tasks :
        \/ QueryUrl(t)
        \/ QueryEndpoint(t)
        \/ QueryDocument(t)
        \/ ResourceDiscovered(t)
        \/ GetOrTryInit(t)
        \/ AcquirePermit(t)
        \/ AcquireClosed(t)
        \/ InitReturns(t)
        \/ Send(t)
        \/ Answer(t)

SpecClient == InitClient /\ [][NextClient]_vars


\* The callers whose own discovery attempt failed.
FailedAttempts ==
    {t \in Tasks : /\ call[t].kind = "endpoint"
                   /\ call[t].probes = 1
                   /\ pc[t] = "done"
                   /\ call[t].target = None}

\* The callers that found a discovery attempt in flight when they arrived.
Latecomers == {t \in Tasks : call[t].kind = "endpoint" /\ call[t].waited_for # 0}

\* C8 as stated: a caller that arrives while a discovery attempt is in
\* flight issues no probe of its own, so one probe is sent however many
\* callers there are.
C8_LatecomerNeverProbes ==
    /\ \A t \in Latecomers : call[t].probes = 0
    /\ Latecomers # {} => sent.root_route = 1

\* C8, amended: at most one discovery attempt is in flight; a caller that
\* arrives during one waits while it is in flight, takes its value and sends
\* no probe if it succeeds, and probes itself only after it failed; the
\* probes sent are one per failed attempt, one for an attempt in flight and
\* one for the attempt that filled the cache.
C8_LatecomerWaitsForAttempt ==
    /\ Cardinality(Holder) <= 1
    /\ Holder # {} => root_route.permits = 0 /\ ~root_route.value_set
    /\ sent.root_route =
           Cardinality(FailedAttempts) + Cardinality(Holder)
               + (IF root_route.value_set THEN 1 ELSE 0)
    /\ \A t \in Latecomers :
        LET h == call[t].waited_for
        IN  /\ pc[h] = "init" => pc[t] = "acquire" /\ call[t].probes = 0
            /\ call[t].probes = 1 => h \in FailedAttempts
            /\ (pc[h] # "init" /\ h \notin FailedAttempts) =>
                   /\ call[t].probes = 0
                   /\ root_route.value_set
                   /\ call[t].target # None =>
                          call[t].target = join(root_route.value, PostRoute)

\* A caller that arrived during an attempt that succeeded has finished its
\* query without a probe of its own.
C8_Witness ==
    \E t \in Latecomers :
        /\ pc[t] = "done"
        /\ call[t].probes = 0
        /\ call[t].target = join(root_route.value, PostRoute)
        /\ call[call[t].waited_for].probes = 1
        /\ sent.root_route = 1

\* C9: once the cache of a client holds a RootRoute, the cell is never
\* written again, no discovery probe is sent any more, and every route
\* resolved from then on is that value joined with the route.
C9_CachedOnce ==
    [][root_route.value_set =>
          /\ root_route' = root_route
          /\ sent'.root_route = sent.root_route
          /\ \A t \in Tasks :
                 (call[t].kind = "endpoint" /\ call[t].target # call'[t].target) =>
                     call'[t].target = join(root_route.value, PostRoute)]_vars

\* Two endpoint queries resolved onto the one cached value, one of them
\* started after the cache was filled, with one probe sent in all.
C9_Witness ==
    /\ root_route.value_set
    /\ sent.root_route = 1
    /\ \E t, u \in Tasks :
        /\ call[t].kind = "endpoint" /\ ~call[t].cached /\ call[t].probes = 1
        /\ call[u].kind = "endpoint" /\ call[u].cached /\ call[u].probes = 0
        /\ pc[u] = "done"
        /\ call[t].target = join(root_route.value, PostRoute)
        /\ call[u].target = call[t].target

\* C10 as stated: a finished query has handed exactly one request to
\* send_request, whichever way its target was given.
C10_OneRoundTripPerQuery ==
    \A t \in Tasks : pc[t] = "done" => call[t].probes + call[t].requests = 1

\* C10, amended: a query hands its own request to send_request once, when
\* its target is resolved, and never again; resolving the target sends no
\* probe for a URL, one probe for a document, and for an endpoint route one
\* probe when this caller runs root-route discovery itself and none when the
\* root route is cached.
C10_OneRequestPlusDiscovery ==
    \A t \in Tasks :
        /\ call[t].kind # "none" =>
               /\ call[t].requests <= 1
               /\ call[t].probes <= 1
               /\ call[t].requests = 1 <=> pc[t] \in {"await", "done"} /\ call[t].target # None
        /\ pc[t] = "done" =>
               /\ call[t].kind = "url" => call[t].probes = 0 /\ call[t].requests = 1
               /\ call[t].kind = "document" => call[t].probes = 1
               /\ call[t].kind = "endpoint" =>
                      /\ call[t].cached => call[t].probes = 0 /\ call[t].requests = 1
                      /\ call[t].target = None => call[t].probes = 1

\* A document query and an endpoint query on an empty cache, both finished
\* after a probe and a request each.
C10_Witness ==
    \E t, u \in Tasks :
        /\ pc[t] = "done" /\ call[t].kind = "document"
        /\ call[t].probes = 1 /\ call[t].requests = 1
        /\ pc[u] = "done" /\ call[u].kind = "endpoint"
        /\ call[u].probes = 1 /\ call[u].requests = 1

DiscoveryFailures == {"Client", "UrlParse", "RootRouteDiscovery"}

\* C19: a discovery attempt that fails (the HEAD request failed, the link
\* named no URL, or no link matched) leaves the cache as it was when new,
\* empty and with its permit back, and hands the failure to the caller that
\* ran the attempt; the cache never holds anything but a RootRoute, and
\* while it is empty and no attempt is in flight the next caller that asks
\* for the root route is let in to make an attempt of its own.
C19_FailureNotCached ==
    /\ [](/\ root_route.value_set =>
                 root_route.value.tag \in {"Default", "PrettyPermalinks"}
          /\ ~root_route.value_set => root_route.value = None
          /\ (~root_route.value_set /\ Holder = {}) => root_route = EmptyCell)
    /\ [][\A t \in Tasks :
            (pc[t] = "init" /\ pc'[t] = "done") =>
                /\ root_route' = EmptyCell
                /\ outcome'[t] # None
                /\ ~outcome'[t].ok
                /\ outcome'[t].err.kind \in DiscoveryFailures
                /\ call'[t].target = None
                /\ sent' = sent]_vars

\* One caller's attempt failed on a link that names no URL and another
\* caller, which never saw an attempt in flight, made an attempt of its own
\* that filled the cache.
C19_Witness ==
    \E t, u \in Tasks :
        /\ t \in FailedAttempts
        /\ outcome[t].err.kind = "UrlParse"
        /\ call[u].kind = "endpoint"
        /\ ~call[u].cached
        /\ call[u].waited_for = 0
        /\ call[u].probes = 1
        /\ root_route.value_set
        /\ sent.root_route = 2

-----------------------------------------------------------------------------
(* Route resolution: discover_root_route, then join on the root it found,  *)
(* as WordPress::route_url does                                            *)

MailtoUrl ==
    <<"m","a","i","l","t","o",":","a","d","m","i","n","@","e","x","a","m","p","l","e",".","c","o","m">>

ResolveHeaders ==
    {Link(t, RootRouteSuffix) : t \in RootLinkTexts \cup {MailtoUrl, RelativeText}}
        \cup {Link(ShortUrl, ShortlinkSuffix),
              Link(WpJsonUrl \o <<"0xC3", "0xA9">>, RootRouteSuffix)}

ResolveAnswers ==
    {Ok([status |-> 200, links |-> ls]) : ls \in SeqsUpTo(ResolveHeaders, MaxLinks)}
        \cup {Err(MockClientError)}

ResolveRoutes == {<<>>, PostRoute, <<"/">>}

InitResolve ==
    /\ probe \in [url : {SiteUrl}, sending : ResolveAnswers]
    /\ discovered = None
    /\ routes \in [a : ResolveRoutes, b : {<<>>}]
    /\ joined = None
    /\ url = None /\ root = None
    /\ IdleQuery /\ IdleClient

\* WordPress::route_url: the route is joined onto the root that root_route()
\* returned; an error of root_route() is returned as it is.
JoinDiscovered ==
    /\ discovered # None
    /\ discovered.op = "discover_root_route"
    /\ joined = None
    /\ joined' = IF discovered.out.ret.ok
                  THEN Ok(route_url(discovered.out.ret.value, routes.a \o routes.b))
                  ELSE discovered.out.ret
    /\ UNCHANGED <<url, root, routes, queryVars, discVars, clientVars>>

NextResolve == DiscoverRootRoute \/ JoinDiscovered

SpecResolve == InitResolve /\ [][NextResolve]_vars

\* C17 as stated: whatever link occurrences the probe is answered with and
\* whatever the route, discover_root_route followed by join returns a URL or
\* an ApiError; it never panics.
C17_NeverPanics ==
    (discovered # None /\ joined # None) =>
        \/ ~joined.ok /\ joined.err.kind \in {"Client", "UrlParse", "RootRouteDiscovery"}
        \/ joined.ok /\ joined.value # Panic

-----------------------------------------------------------------------------
(* Joining a route onto a root: tests::join_pretty_permalinks and          *)
(* tests::join_default, over more roots and routes                         *)

MaxParams == 2
MaxRouteFragments == 2

\* The parameters a root's query is written with, as they stand in the text.
JoinParams ==
    {REST_ROUTE_QUERY_PARAM \o <<"=","/">>,
     REST_ROUTE_QUERY_PARAM,
     <<"r","e","s","t","%","5","F","r","o","u","t","e","=","1">>,
     <<"a">>, <<"a","=">>, <<"=">>, <<>>,
     <<"c","=","d","+","e">>, <<"c","=","d","%","2","0","e">>}

JoinQueries ==
    {<<"?">> \o JoinWith(ps, <<"&">>) : ps \in SeqsUpTo(JoinParams, MaxParams)}

WpJsonPath == <<"/","w","p","-","j","s","o","n">>

DefaultBaseTexts ==
    {ExampleCom \o p \o q : p \in {<<"/">>, WpJsonPath \o <<"/">>}, q \in JoinQueries}

PrettyBaseTexts ==
    {ExampleCom \o p \o q :
        p \in {<<"/">>, WpJsonPath, WpJsonPath \o <<"/">>},
        q \in {<<>>, <<"?","a","=","1","#","x">>}}

RouteFragments == {<<"/">>, <<"w","p">>, <<".">>, <<" ">>}

RouteTexts == {Concat(fs) : fs \in SeqsUpTo(RouteFragments, MaxRouteFragments)}

DefaultRoutes ==
    {<<>>, <<"/","w","p","/","v","2","/","p","o","s","t","s","/","1">>,
     <<"a"," ","b","&","c","=","%">>}

JoinCases ==
    {[url |-> u, routes |-> [a |-> a, b |-> b]] :
        u \in PrettyBaseTexts, a \in RouteTexts, b \in RouteTexts}
    \cup
    {[url |-> u, routes |-> [a |-> a, b |-> <<>>]] :
        u \in DefaultBaseTexts, a \in DefaultRoutes}

InitJoin ==
    /\ \E c \in JoinCases : url = c.url /\ routes = c.routes
    /\ root = None
    /\ joined = None
    /\ IdleQuery /\ IdleDisc /\ IdleClient

\* root.join(a + b)
Join ==
    /\ root # None
    /\ routes # None
    /\ joined = None
    /\ joined' = [whole |-> join(root, routes.a \o routes.b),
                  first |-> None, second |-> None]
    /\ UNCHANGED <<url, root, routes, queryVars, discVars, clientVars>>

\* root.join(a)
JoinFirst ==
    /\ joined # None
    /\ joined.first = None
    /\ joined' = [joined EXCEPT !.first = join(root, routes.a)]
    /\ UNCHANGED <<url, root, routes, queryVars, discVars, clientVars>>

\* The root of the same variant around the URL root.join(a) returned, and b
\* joined onto it.
JoinSecond ==
    /\ joined # None
    /\ joined.first # None
    /\ joined.second = None
    /\ joined' = [joined EXCEPT
                    !.second = join([root EXCEPT !.url = joined.first], routes.b)]
    /\ UNCHANGED <<url, root, routes, queryVars, discVars, clientVars>>

NextJoin == FromUrl \/ Join \/ JoinFirst \/ JoinSecond

SpecJoin == InitJoin /\ [][NextJoin]_vars

JoinedDefault == joined # None /\ root # None /\ root.tag = "Default"
JoinedPretty == joined # None /\ root # None /\ root.tag = "PrettyPermalinks"
WholeRoute == routes.a \o routes.b

\* The parameters of a query as they are written: the non-empty pieces
\* between '&'.
RawParams(u) ==
    IF u.has_query
    THEN SelectSeq(Split(u.query, "&"), LAMBDA piece : piece # <<>>)
    ELSE <<>>

IsRestRoute(pair) == pair.key = REST_ROUTE_QUERY_PARAM
IsBlank(pair) == pair.key = <<>> /\ pair.value = <<>>

\* The parameters of the base in the shape the claim gives them in the
\* joined URL.
SameParametersAs(basePairs, out) ==
    LET outPairs == query_pairs(out)
        written == RawParams(out)
    IN  /\ Len(outPairs) = Len(basePairs)
        /\ Len(written) = Len(basePairs)
        /\ \A i \in 1..Len(basePairs) :
            /\ outPairs[i].key = basePairs[i].key
            /\ outPairs[i].value =
                   IF IsRestRoute(basePairs[i]) THEN WholeRoute
                   ELSE basePairs[i].value
            /\ (\E k \in 1..Len(written[i]) : written[i][k] = "=")
                   <=> (IsRestRoute(basePairs[i]) \/ basePairs[i].value # <<>>)

SameBase(base, out) ==
    /\ out.scheme = base.scheme
    /\ out.has_host = base.has_host
    /\ out.host = base.host
    /\ out.path = base.path

\* C11 as stated: joining onto a Default root keeps the number, the keys and
\* the order of the query parameters of the base, every rest_route parameter
\* gets the route as its value, every other parameter with an empty value is
\* written key-only, every other parameter keeps its value, and scheme, host
\* and path are those of the base.
C11_SameParameters ==
    JoinedDefault =>
        /\ SameParametersAs(query_pairs(root.url), joined.whole)
        /\ SameBase(root.url, joined.whole)

\* C11, amended: the same, for the parameters of the base other than those
\* whose key and value are both empty; such a parameter is written as
\* nothing and is not a parameter of the joined URL.
C11_ParametersRebuilt ==
    JoinedDefault =>
        /\ SameParametersAs(
               SelectSeq(query_pairs(root.url), LAMBDA pair : ~IsBlank(pair)),
               joined.whole)
        /\ SameBase(root.url, joined.whole)

\* A Default root with two parameters, one rest_route and one written "a=",
\* joined with a route that is not empty.
C11_Witness ==
    /\ JoinedDefault
    /\ WholeRoute # <<>>
    /\ RawParams(root.url) = <<REST_ROUTE_QUERY_PARAM \o <<"=","/">>, <<"a","=">>>>

Others(pairs) == SelectSeq(pairs, LAMBDA pair : ~IsRestRoute(pair))

\* The written parameters whose decoded key is not rest_route.
OthersWritten(u) ==
    SelectSeq(RawParams(u),
              LAMBDA piece : ~IsRestRoute(parse_pairs(<<piece>>)[1]))

\* application/x-www-form-urlencoded of one parameter, key-only when the
\* value is empty.
Normalised(pair) ==
    IF pair.value = <<>> THEN byte_serialize(pair.key)
    ELSE byte_serialize(pair.key) \o <<"=">> \o byte_serialize(pair.value)

Segments(path) == Split(Tail(path), "/")

DropEmptyLast(segments) ==
    IF segments # <<>> /\ segments[Len(segments)] = <<>>
    THEN SubSeq(segments, 1, Len(segments) - 1)
    ELSE segments

RECURSIVE DropEmptyFirst(_)
DropEmptyFirst(segments) ==
    IF segments # <<>> /\ segments[1] = <<>>
    THEN DropEmptyFirst(Tail(segments))
    ELSE segments

PathOf(segments) ==
    IF segments = <<>> THEN <<"/">>
    ELSE Concat([i \in 1..Len(segments) |-> <<"/">> \o segments[i]])

RECURSIVE StripSlashes(_)
StripSlashes(r) == IF r # <<>> /\ r[1] = "/" THEN StripSlashes(Tail(r)) ELSE r

StripOneSlash(r) == IF r # <<>> /\ r[1] = "/" THEN Tail(r) ELSE r

Encoded(components) ==
    [i \in 1..Len(components) |-> encode_segment(components[i])]

\* C13 as stated: joining onto a PrettyPermalinks root gives the base path
\* without its empty last segment, followed by one segment for each
\* '/'-delimited component of the route after one leading slash is stripped.
C13_SingleSlashStripped ==
    JoinedPretty =>
        Segments(joined.whole.path) =
            DropEmptyLast(Segments(root.url.path))
                \o Encoded(Split(StripOneSlash(WholeRoute), "/"))

\* C13, amended: the base path without its empty last segment, followed by
\* one segment for each '/'-delimited component of the route after all its
\* leading slashes are stripped, except the components "." and "..", which
\* add nothing; when nothing is left of the base path, empty components at
\* the front add nothing either.
C13_LeadingSlashesStripped ==
    JoinedPretty =>
        LET kept == DropEmptyLast(Segments(root.url.path))
            components == SelectSeq(Split(StripSlashes(WholeRoute), "/"),
                                    LAMBDA c : c \notin {<<".">>, <<".", ".">>})
            added == IF kept = <<>> THEN DropEmptyFirst(Encoded(components))
                     ELSE Encoded(components)
        IN  joined.whole.path = PathOf(kept \o added)

\* The root http://example.com/wp-json/ joined with a route of two leading
\* slashes and a component.
C13_Witness ==
    /\ JoinedPretty
    /\ root.url.path = WpJsonPath \o <<"/">>
    /\ WholeRoute = <<"/", "/", "w", "p">>
    /\ joined.whole.path = WpJsonPath \o <<"/", "w", "p">>

\* Trailing-slash normalization of a URL: one '/' at the end of a path longer
\* than "/" goes.
Normalize(u) ==
    [u EXCEPT !.path = IF Len(@) > 1 /\ @[Len(@)] = "/"
                       THEN SubSeq(@, 1, Len(@) - 1) ELSE @]

JoinedTwice == JoinedPretty /\ joined.second # None

OneSlashBetween(a, b) ==
    \/ StripSlashes(a) = <<>>
    \/ b = <<>>
    \/ a[Len(a)] # "/" /\ b[1] = "/" /\ (Len(b) = 1 \/ b[2] # "/")
    \/ a[Len(a)] = "/" /\ b[1] # "/"

-----------------------------------------------------------------------------

Init ==
    InitRoot \/ InitQuery \/ InitDisc \/ InitClient \/ InitJoin \/ InitResolve

Next ==
    NextRoot \/ NextQuery \/ NextDisc \/ NextClient \/ NextJoin \/ NextResolve

Spec == Init /\ [][Next]_vars

====
